---- MODULE Spec2Model ----
(***************************************************************************)
(* Model of the Excel splitter service (src/app.py).                       *)
(*                                                                         *)
(* Spec      the /split-excel request handler together with                *)
(*           split_excel_by_sheets_simple, one step per statement group.   *)
(* SpecCell  the per-cell copy of value and style (lines 178-192).         *)
(* SpecDim   the copy of column widths and row heights (lines 165-173).    *)
(*                                                                         *)
(* Strings are sequences of one-character strings, so that                 *)
(* sanitize_filename, os.path.splitext and allowed_file are computed       *)
(* character by character as the code computes them.  Messages built with  *)
(* f-strings are sequences of their fragments.                             *)
(***************************************************************************)
EXTENDS Integers, Sequences, FiniteSets, TLC

VARIABLES
    pc,             \* position of the request in split_excel / split_excel_by_sheets_simple
    request,        \* the multipart request: has_file, filename
    file_bytes,     \* the uploaded content (file.read())
    source_wb,      \* the workbook loaded by load_workbook, a sequence of sheets
    visible_sheets, \* sheet names with sheet_state = 'visible', in workbook order
    hidden_sheets,  \* the other sheet names, in workbook order
    idx,            \* index of the current sheet in the running for loop
    new_wb,         \* the single-sheet workbook under construction
    output_buffer,  \* the bytes new_wb.save wrote
    split_files,    \* the result mapping: output file name -> bytes
    log,            \* what logger.info / logger.error recorded per sheet
    ret,            \* the tuple split_excel_by_sheets_simple returned
    response,       \* the HTTP response of split_excel
    cpc,            \* SpecCell: position in the cell copy
    cell,           \* SpecCell: the source cell
    target_cell,    \* SpecCell: the target cell
    attr_i,         \* SpecCell: index of the style attribute being copied
    cell_log,       \* SpecCell: logger.debug records
    dpc,            \* SpecDim: position in the dimension copy
    source_ws,      \* SpecDim: column_dimensions and row_dimensions of the source sheet
    target_ws,      \* SpecDim: column_dimensions and row_dimensions of the target sheet
    todo            \* SpecDim: the dimension entries the running for loop has not visited

vars == <<pc, request, file_bytes, source_wb, visible_sheets, hidden_sheets, idx,
          new_wb, output_buffer, split_files, log, ret, response,
          cpc, cell, target_cell, attr_i, cell_log,
          dpc, source_ws, target_ws, todo>>

mainVars == <<pc, request, file_bytes, source_wb, visible_sheets, hidden_sheets, idx,
              new_wb, output_buffer, split_files, log, ret, response>>
cellVars == <<cpc, cell, target_cell, attr_i, cell_log>>
dimVars  == <<dpc, source_ws, target_ws, todo>>

(***************************************************************************)
(* Configuration and bounds                                                *)
(***************************************************************************)

\* MAX_SHEETS = int(os.environ.get('MAX_SHEETS', 100)): the service is modelled
\* as deployed with MAX_SHEETS=3 in its environment.
MAX_SHEETS == 3

\* max_length of sanitize_filename
max_length == 100

\* How many names of SheetNamePool the uploaded workbooks draw from.
NumNames == 4

\* Largest explicit width / height of a dimension entry.
MaxDim == 2

\* Number of columns and of rows that may carry a dimension entry.
NumDimKeys == 2

(***************************************************************************)
(* Strings                                                                 *)
(***************************************************************************)

Max(a, b) == IF a > b THEN a ELSE b
Min(a, b) == IF a < b THEN a ELSE b

\* s[:n] of Python
PyPrefix(s, n) ==
    IF n >= 0 THEN SubSeq(s, 1, Min(n, Len(s)))
    ELSE SubSeq(s, 1, Max(0, Len(s) + n))

\* s.rfind(c), 1-based, 0 when absent
RFind(s, c) ==
    LET hits == {k \in 1..Len(s) : s[k] = c}
    IN  IF hits = {} THEN 0 ELSE CHOOSE k \in hits : \A j \in hits : j <= k

\* s.strip(chars)
Strip(s, chars) ==
    LET keep == {k \in 1..Len(s) : s[k] \notin chars}
    IN  IF keep = {} THEN <<>>
        ELSE LET lo == CHOOSE k \in keep : \A j \in keep : k <= j
                 hi == CHOOSE k \in keep : \A j \in keep : j <= k
             IN  SubSeq(s, lo, hi)

\* os.path.splitext (posixpath: sep '/', extsep '.'): <<root, ext>>
splitext(p) ==
    LET sepIndex == RFind(p, "/")
        dotIndex == RFind(p, ".")
    IN  IF dotIndex > sepIndex
           /\ \E k \in (sepIndex + 1)..(dotIndex - 1) : p[k] # "."
        THEN <<SubSeq(p, 1, dotIndex - 1), SubSeq(p, dotIndex, Len(p))>>
        ELSE <<p, <<>>>>

\* the character class [<>:"/\\|?*] of the re.sub in sanitize_filename
InvalidChars == {"<", ">", ":", "\"", "/", "\\", "|", "?", "*"}

sanitize_filename(filename) ==
    LET subbed   == [k \in 1..Len(filename) |->
                        IF filename[k] \in InvalidChars THEN "_" ELSE filename[k]]
        stripped == Strip(subbed, {".", " "})
        capped   == IF Len(stripped) > max_length
                    THEN LET ne == splitext(stripped)
                         IN  PyPrefix(ne[1], max_length - Len(ne[2])) \o ne[2]
                    ELSE stripped
    IN  IF capped = <<>> THEN <<"u", "n", "n", "a", "m", "e", "d">> ELSE capped

lower(c) ==
    CASE c = "X" -> "x"
      [] c = "L" -> "l"
      [] c = "S" -> "s"
      [] OTHER   -> c

ALLOWED_EXTENSIONS ==
    { <<"x", "l", "s", "x">>, <<"x", "l", "s">>,
      <<"x", "l", "s", "m">>, <<"x", "l", "s", "b">> }

allowed_file(filename) ==
    LET dot == RFind(filename, ".")
        ext == SubSeq(filename, dot + 1, Len(filename))
    IN  /\ dot > 0
        /\ [k \in 1..Len(ext) |-> lower(ext[k])] \in ALLOWED_EXTENSIONS

(***************************************************************************)
(* Inputs of a request                                                     *)
(***************************************************************************)

\* Sheet titles a workbook may carry.  Excel forbids only \ / ? * [ ] : in a
\* title, so '<' and '>' are legal; the second and third title differ only in
\* a character the re.sub of sanitize_filename replaces.
SheetNamePool ==
    << <<"Q", "1">>, <<"a", "<">>, <<"a", ">">>, <<"S", "u", "m">>, <<"R", ".">>, <<"a", "_">> >>

SheetNames == {SheetNamePool[k] : k \in 1..Min(NumNames, Len(SheetNamePool))}

\* Worksheet.sheet_state
SheetStates == {"visible", "hidden", "veryHidden"}

\* Workbooks of 1 .. MAX_SHEETS+1 sheets with unique titles.
Workbooks ==
    UNION { { [j \in 1..n |-> [name |-> ns[j], sheet_state |-> st[j]]] :
                ns \in {f \in [1..n -> SheetNames] :
                          \A a, b \in 1..n : a # b => f[a] # f[b]},
                st \in [1..n -> SheetStates] } :
            n \in 1..(MAX_SHEETS + 1) }

\* str(e) of the exception load_workbook raises on the two kinds of damaged upload
ExcText(kind) ==
    IF kind = "corrupt" THEN "File is not a zip file"
    ELSE "xl/worksheets/sheet1.xml: not well-formed (invalid token)"

ExceptionTexts == {ExcText("corrupt"), ExcText("lazy_corrupt")}

\* The uploaded bytes: "ok" parses in both load modes; "corrupt" parses in none;
\* "lazy_corrupt" has a damaged worksheet part, which the read-only load of
\* validate_excel_file does not parse and the full load does.
Uploads ==
    [kind : {"ok"}, sheets : Workbooks]
        \cup [kind : {"corrupt", "lazy_corrupt"}, sheets : {<<>>}]

Filenames ==
    { <<>>,
      <<"n", ".", "t", "x", "t">>,
      <<"R", "e", "p", "o", "r", "t", ".", "x", "l", "s", "x">>,
      <<"a", "<", "b", ".", "X", "L", "S">> }

Requests ==
    [has_file : {TRUE}, filename : Filenames]
        \cup [has_file : {FALSE}, filename : {<<>>}]

\* Steps of one sheet's extraction that may raise, in order (lines 165-201)
SheetSteps == <<"widths", "heights", "cells", "merges", "save">>
CopySteps  == {"widths", "heights", "cells", "merges"}

EmptyFiles == <<>>
NoError    == <<>>

(***************************************************************************)
(* Messages and responses                                                  *)
(***************************************************************************)

MsgTooManySheets(n) ==
    <<"File contains too many sheets (", ToString(n), "). Maximum allowed: ",
      ToString(MAX_SHEETS)>>
MsgNoSheetsProcessed == <<"No sheets could be processed successfully">>
MsgErrorProcessing(e) == <<"Error processing Excel file: ", e>>
MsgInvalidExcel(e) == <<"Invalid Excel file: ", e>>
MsgNoSheetsFound == <<"No sheets found in Excel file">>
MsgUnexpected == <<"An unexpected error occurred">>

JsonError(status, msg) ==
    [status |-> status, kind |-> "json", error |-> msg, files |-> EmptyFiles]

\* f"{base_name}_{sanitized_sheet_name}.xlsx"
OutputFilename(base_name, sheet_name) ==
    base_name \o <<"_">> \o sanitize_filename(sheet_name) \o <<".", "x", "l", "s", "x">>

\* base_name = os.path.splitext(original_filename)[0]
BaseName(original_filename) == splitext(original_filename)[1]

(***************************************************************************)
(* split_excel: request validation (lines 300-330)                         *)
(***************************************************************************)

Finish(resp) ==
    /\ response' = <<resp>>
    /\ pc' = "done"

Receive ==
    /\ pc = "idle"
    /\ \E r \in Requests : request' = <<r>>
    /\ pc' = "validate_request"
    /\ UNCHANGED <<file_bytes, source_wb, visible_sheets, hidden_sheets, idx, new_wb,
                   output_buffer, split_files, log, ret, response>>
    /\ UNCHANGED <<cellVars, dimVars>>

NoFileProvided ==
    /\ pc = "validate_request"
    /\ ~request[1].has_file
    /\ Finish(JsonError(400, <<"No file provided">>))
    /\ UNCHANGED <<request, file_bytes, source_wb, visible_sheets, hidden_sheets, idx,
                   new_wb, output_buffer, split_files, log, ret>>
    /\ UNCHANGED <<cellVars, dimVars>>

NoFileSelected ==
    /\ pc = "validate_request"
    /\ request[1].has_file
    /\ request[1].filename = <<>>
    /\ Finish(JsonError(400, <<"No file selected">>))
    /\ UNCHANGED <<request, file_bytes, source_wb, visible_sheets, hidden_sheets, idx,
                   new_wb, output_buffer, split_files, log, ret>>
    /\ UNCHANGED <<cellVars, dimVars>>

InvalidFileType ==
    /\ pc = "validate_request"
    /\ request[1].has_file
    /\ request[1].filename # <<>>
    /\ ~allowed_file(request[1].filename)
    /\ Finish(JsonError(400, <<"Invalid file type. Allowed types: ", "ALLOWED_EXTENSIONS">>))
    /\ UNCHANGED <<request, file_bytes, source_wb, visible_sheets, hidden_sheets, idx,
                   new_wb, output_buffer, split_files, log, ret>>
    /\ UNCHANGED <<cellVars, dimVars>>

ReadFile ==
    /\ pc = "validate_request"
    /\ request[1].has_file
    /\ request[1].filename # <<>>
    /\ allowed_file(request[1].filename)
    /\ \E b \in Uploads : file_bytes' = <<b>>
    /\ pc' = "validate_excel"
    /\ UNCHANGED <<request, source_wb, visible_sheets, hidden_sheets, idx, new_wb,
                   output_buffer, split_files, log, ret, response>>
    /\ UNCHANGED <<cellVars, dimVars>>

\* validate_excel_file (lines 85-101) and its use (lines 328-330)
ValidateExcelFile ==
    /\ pc = "validate_excel"
    /\ IF file_bytes[1].kind = "corrupt"
       THEN Finish(JsonError(400, MsgInvalidExcel(ExcText(file_bytes[1].kind))))
       ELSE /\ pc' = "load"
            /\ UNCHANGED response
    /\ UNCHANGED <<request, file_bytes, source_wb, visible_sheets, hidden_sheets, idx,
                   new_wb, output_buffer, split_files, log, ret>>
    /\ UNCHANGED <<cellVars, dimVars>>

(***************************************************************************)
(* split_excel_by_sheets_simple (lines 105-222)                            *)
(***************************************************************************)

CurrentSheet == visible_sheets[idx]

\* load_workbook (lines 125-132); an exception goes to the outer handler
\* (lines 220-222), which returns {} and the exception's text.
LoadWorkbook ==
    /\ pc = "load"
    /\ IF file_bytes[1].kind = "ok"
       THEN /\ source_wb' = file_bytes[1].sheets
            /\ pc' = "check_count"
            /\ UNCHANGED ret
       ELSE /\ ret' = << [files |-> EmptyFiles,
                          error |-> MsgErrorProcessing(ExcText(file_bytes[1].kind))] >>
            /\ pc' = "returned"
            /\ UNCHANGED source_wb
    /\ UNCHANGED <<request, file_bytes, visible_sheets, hidden_sheets, idx, new_wb,
                   output_buffer, split_files, log, response>>
    /\ UNCHANGED <<cellVars, dimVars>>

\* the sheet-count check with the comparison off by one
TooManySheetsOffByOne(n) == n >= MAX_SHEETS

\* the sheet-count check (lines 134-136)
TooManySheets(n) == n > MAX_SHEETS

CheckSheetCount ==
    /\ pc = "check_count"
    /\ IF TooManySheets(Len(source_wb))
       THEN /\ ret' = << [files |-> EmptyFiles,
                          error |-> MsgTooManySheets(Len(source_wb))] >>
            /\ pc' = "returned"
            /\ UNCHANGED idx
       ELSE /\ pc' = "filter"
            /\ idx' = 1
            /\ UNCHANGED ret
    /\ UNCHANGED <<request, file_bytes, source_wb, visible_sheets, hidden_sheets, new_wb,
                   output_buffer, split_files, log, response>>
    /\ UNCHANGED <<cellVars, dimVars>>

\* one iteration of the visibility loop (lines 141-146); after the last sheet
\* the loop over visible_sheets starts
FilterSheet ==
    /\ pc = "filter"
    /\ LET sheet == source_wb[idx]
       IN  IF sheet.sheet_state = "visible"
           THEN /\ visible_sheets' = Append(visible_sheets, sheet.name)
                /\ UNCHANGED hidden_sheets
           ELSE /\ hidden_sheets' = Append(hidden_sheets, sheet.name)
                /\ UNCHANGED visible_sheets
    /\ IF idx = Len(source_wb)
       THEN pc' = "next_sheet" /\ idx' = 1
       ELSE pc' = "filter" /\ idx' = idx + 1
    /\ UNCHANGED <<request, file_bytes, source_wb, new_wb, output_buffer, split_files,
                   log, ret, response>>
    /\ UNCHANGED <<cellVars, dimVars>>

\* lines 153-163: the next visible sheet gets a fresh workbook with one sheet
\* of the same title
BeginSheet ==
    /\ pc = "next_sheet"
    /\ idx <= Len(visible_sheets)
    /\ new_wb' = << [title |-> CurrentSheet, copied |-> {}] >>
    /\ output_buffer' = <<>>
    /\ pc' = "widths"
    /\ UNCHANGED <<request, file_bytes, source_wb, visible_sheets, hidden_sheets, idx,
                   split_files, log, ret, response>>
    /\ UNCHANGED <<cellVars, dimVars>>

CopyStep(step, next) ==
    /\ pc = step
    /\ new_wb' = << [new_wb[1] EXCEPT !.copied = @ \cup {step}] >>
    /\ pc' = next
    /\ UNCHANGED <<request, file_bytes, source_wb, visible_sheets, hidden_sheets, idx,
                   output_buffer, split_files, log, ret, response>>
    /\ UNCHANGED <<cellVars, dimVars>>

\* lines 165-168
CopyColumnWidths == CopyStep("widths", "heights")
\* lines 170-173
CopyRowHeights == CopyStep("heights", "cells")
\* lines 175-192
CopyCells == CopyStep("cells", "merges")
\* lines 194-196
CopyMergedCells == CopyStep("merges", "save")

\* new_wb.save(output_buffer) (lines 198-201)
SaveWorkbook ==
    /\ pc = "save"
    /\ output_buffer' = << [sheet |-> new_wb[1].title, parts |-> new_wb[1].copied,
                            complete |-> TRUE] >>
    /\ pc' = "store"
    /\ UNCHANGED <<request, file_bytes, source_wb, visible_sheets, hidden_sheets, idx,
                   new_wb, split_files, log, ret, response>>
    /\ UNCHANGED <<cellVars, dimVars>>

\* lines 203-208
StoreSheet ==
    /\ pc = "store"
    /\ LET output_filename == OutputFilename(BaseName(request[1].filename), CurrentSheet)
       IN  split_files' = (output_filename :> output_buffer[1]) @@ split_files
    /\ log' = Append(log, [level |-> "info", sheet |-> CurrentSheet, step |-> "done"])
    /\ new_wb' = <<>>
    /\ output_buffer' = <<>>
    /\ idx' = idx + 1
    /\ pc' = "next_sheet"
    /\ UNCHANGED <<request, file_bytes, source_wb, visible_sheets, hidden_sheets,
                   ret, response>>
    /\ UNCHANGED <<cellVars, dimVars>>

\* the handler of lines 210-213 changed to keep what was built of the sheet
SheetErrorKeepsPartial ==
    /\ pc \in {SheetSteps[k] : k \in 1..Len(SheetSteps)}
    /\ LET output_filename == OutputFilename(BaseName(request[1].filename), CurrentSheet)
       IN  split_files' =
               (output_filename :> [sheet |-> new_wb[1].title, parts |-> new_wb[1].copied,
                                    complete |-> FALSE]) @@ split_files
    /\ log' = Append(log, [level |-> "error", sheet |-> CurrentSheet, step |-> pc])
    /\ new_wb' = <<>>
    /\ output_buffer' = <<>>
    /\ idx' = idx + 1
    /\ pc' = "next_sheet"
    /\ UNCHANGED <<request, file_bytes, source_wb, visible_sheets, hidden_sheets,
                   ret, response>>
    /\ UNCHANGED <<cellVars, dimVars>>

\* An exception in any of the steps of SheetSteps, caught at lines 210-213: the
\* error is logged and the loop continues with the next sheet; nothing of the
\* abandoned workbook is stored.
SheetError ==
    /\ pc \in {SheetSteps[k] : k \in 1..Len(SheetSteps)}
    /\ log' = Append(log, [level |-> "error", sheet |-> CurrentSheet, step |-> pc])
    /\ new_wb' = <<>>
    /\ output_buffer' = <<>>
    /\ idx' = idx + 1
    /\ pc' = "next_sheet"
    /\ UNCHANGED <<request, file_bytes, source_wb, visible_sheets, hidden_sheets,
                   split_files, ret, response>>
    /\ UNCHANGED <<cellVars, dimVars>>

\* lines 215-218, after the loop
ReturnSplit ==
    /\ pc = "next_sheet"
    /\ idx > Len(visible_sheets)
    /\ ret' = IF DOMAIN split_files = {}
              THEN << [files |-> EmptyFiles, error |-> MsgNoSheetsProcessed] >>
              ELSE << [files |-> split_files, error |-> NoError] >>
    /\ pc' = "returned"
    /\ UNCHANGED <<request, file_bytes, source_wb, visible_sheets, hidden_sheets, idx,
                   new_wb, output_buffer, split_files, log, response>>
    /\ UNCHANGED <<cellVars, dimVars>>

(***************************************************************************)
(* split_excel: the response (lines 338-371)                               *)
(***************************************************************************)

\* lines 338-343
RespondError ==
    /\ pc = "returned"
    /\ \/ ret[1].error # NoError
       \/ DOMAIN ret[1].files = {}
    /\ Finish(IF ret[1].error # NoError
              THEN JsonError(500, ret[1].error)
              ELSE JsonError(400, MsgNoSheetsFound))
    /\ UNCHANGED <<request, file_bytes, source_wb, visible_sheets, hidden_sheets, idx,
                   new_wb, output_buffer, split_files, log, ret>>
    /\ UNCHANGED <<cellVars, dimVars>>

\* lines 348-358
RespondSingleFile ==
    /\ pc = "returned"
    /\ ret[1].error = NoError
    /\ Cardinality(DOMAIN ret[1].files) = 1
    /\ Finish([status |-> 200, kind |-> "file", error |-> NoError, files |-> ret[1].files])
    /\ UNCHANGED <<request, file_bytes, source_wb, visible_sheets, hidden_sheets, idx,
                   new_wb, output_buffer, split_files, log, ret>>
    /\ UNCHANGED <<cellVars, dimVars>>

\* lines 359-362 and create_zip_response (lines 225-249)
RespondZip ==
    /\ pc = "returned"
    /\ ret[1].error = NoError
    /\ Cardinality(DOMAIN ret[1].files) > 1
    /\ Finish([status |-> 200, kind |-> "zip", error |-> NoError, files |-> ret[1].files])
    /\ UNCHANGED <<request, file_bytes, source_wb, visible_sheets, hidden_sheets, idx,
                   new_wb, output_buffer, split_files, log, ret>>
    /\ UNCHANGED <<cellVars, dimVars>>

\* lines 369-371: an exception while the response is built (send_file, zipfile)
UnexpectedError ==
    /\ pc = "returned"
    /\ ret[1].error = NoError
    /\ DOMAIN ret[1].files # {}
    /\ Finish(JsonError(500, MsgUnexpected))
    /\ UNCHANGED <<request, file_bytes, source_wb, visible_sheets, hidden_sheets, idx,
                   new_wb, output_buffer, split_files, log, ret>>
    /\ UNCHANGED <<cellVars, dimVars>>

(***************************************************************************)
(* Spec                                                                    *)
(***************************************************************************)

IdleCell ==
    /\ cpc = "off"
    /\ cell = <<>>
    /\ target_cell = <<>>
    /\ attr_i = 0
    /\ cell_log = <<>>

IdleDim ==
    /\ dpc = "off"
    /\ source_ws = <<>>
    /\ target_ws = <<>>
    /\ todo = <<>>

IdleMain ==
    /\ request = <<>>
    /\ file_bytes = <<>>
    /\ source_wb = <<>>
    /\ visible_sheets = <<>>
    /\ hidden_sheets = <<>>
    /\ idx = 0
    /\ new_wb = <<>>
    /\ output_buffer = <<>>
    /\ split_files = EmptyFiles
    /\ log = <<>>
    /\ ret = <<>>
    /\ response = <<>>

Init ==
    /\ pc = "idle"
    /\ IdleMain
    /\ IdleCell
    /\ IdleDim

Next ==
    \/ Receive
    \/ NoFileProvided
    \/ NoFileSelected
    \/ InvalidFileType
    \/ ReadFile
    \/ ValidateExcelFile
    \/ LoadWorkbook
    \/ CheckSheetCount
    \/ FilterSheet
    \/ BeginSheet
    \/ CopyColumnWidths
    \/ CopyRowHeights
    \/ CopyCells
    \/ CopyMergedCells
    \/ SaveWorkbook
    \/ StoreSheet
    \/ SheetError
    \/ ReturnSplit
    \/ RespondError
    \/ RespondSingleFile
    \/ RespondZip
    \/ UnexpectedError

Spec == Init /\ [][Next]_vars

(***************************************************************************)
(* Properties of Spec                                                      *)
(***************************************************************************)

\* the visible sheets of the loaded workbook, read off the input
VisibleNames ==
    {source_wb[k].name : k \in {j \in 1..Len(source_wb) : source_wb[j].sheet_state = "visible"}}
HiddenNames ==
    {source_wb[k].name : k \in {j \in 1..Len(source_wb) : source_wb[j].sheet_state # "visible"}}

\* sheets the log records as processed, and as failed
Succeeded == {log[k].sheet : k \in {j \in 1..Len(log) : log[j].level = "info"}}
Failed    == {log[k].sheet : k \in {j \in 1..Len(log) : log[j].level = "error"}}

\* split_excel_by_sheets_simple returned after loading a workbook that passed
\* the sheet-count check
ReturnedFromLoop ==
    /\ ret # <<>>
    /\ source_wb # <<>>
    /\ Len(source_wb) <= MAX_SHEETS

SheetsIn(files) == {files[f].sheet : f \in DOMAIN files}

\* C1: when the workbook loaded and passed the sheet-count check, every visible
\* sheet was visited whatever sheets failed, the returned mapping holds one
\* blob for each visible sheet that did not fail, and the batch is no error as
\* long as one sheet succeeded.
C1_PartialFailureIsolation ==
    ReturnedFromLoop =>
        /\ VisibleNames \subseteq Succeeded \cup Failed
        /\ SheetsIn(ret[1].files) = VisibleNames \ Failed
        /\ Cardinality(DOMAIN ret[1].files) = Cardinality(VisibleNames \ Failed)
        /\ (VisibleNames \ Failed # {} => ret[1].error = NoError)

\* C2: with N > 1 visible sheets and no failing sheet the returned mapping has
\* exactly N entries, one per visible sheet, none from a hidden sheet, whatever
\* the (unique) sheet names are.
C2_OneEntryPerVisibleSheet ==
    (ReturnedFromLoop /\ Failed = {} /\ Cardinality(VisibleNames) > 1) =>
        /\ Cardinality(DOMAIN ret[1].files) = Cardinality(VisibleNames)
        /\ SheetsIn(ret[1].files) = VisibleNames
        /\ SheetsIn(ret[1].files) \cap HiddenNames = {}

\* C3: the value returned for a workbook without visible sheets differs from
\* the value returned when every visible sheet failed, which is the outcome
\* 'no sheets processed'.
C3_EmptyOutcomesDistinct ==
    ReturnedFromLoop =>
        /\ (VisibleNames # {} /\ VisibleNames \subseteq Failed) =>
               ret[1] = [files |-> EmptyFiles, error |-> MsgNoSheetsProcessed]
        /\ VisibleNames = {} =>
               ret[1] # [files |-> EmptyFiles, error |-> MsgNoSheetsProcessed]

\* C4: a workbook of more than MAX_SHEETS sheets is rejected with the
\* too-many-sheets message and an empty mapping, and no sheet was partitioned
\* or extracted in any state of that request; a workbook of at most MAX_SHEETS
\* sheets (MAX_SHEETS itself included) is not rejected: all its sheets are
\* partitioned and every visible one is visited.
C4_SheetCountCeiling ==
    /\ (source_wb # <<>> /\ Len(source_wb) > MAX_SHEETS) =>
          /\ visible_sheets = <<>> /\ hidden_sheets = <<>>
          /\ new_wb = <<>> /\ output_buffer = <<>>
          /\ split_files = EmptyFiles /\ log = <<>>
          /\ pc # "check_count" =>
                ret = << [files |-> EmptyFiles,
                          error |-> MsgTooManySheets(Len(source_wb))] >>
    /\ (ret # <<>> /\ source_wb # <<>> /\ Len(source_wb) <= MAX_SHEETS) =>
          /\ ret[1].error # MsgTooManySheets(Len(source_wb))
          /\ Len(visible_sheets) + Len(hidden_sheets) = Len(source_wb)
          /\ VisibleNames \subseteq Succeeded \cup Failed

\* a workbook of exactly MAX_SHEETS sheets was extracted into a non-empty result
C4_Witness ==
    /\ ret # <<>>
    /\ Len(source_wb) = MAX_SHEETS
    /\ ret[1].error = NoError
    /\ DOMAIN ret[1].files # {}

\* C5: no error response other than the rejection of invalid input carries
\* the text of an exception.
C5_NoExceptionTextInResponse ==
    (response # <<>> /\ response[1].kind = "json" /\ response[1].status # 400) =>
        \A k \in 1..Len(response[1].error) : response[1].error[k] \notin ExceptionTexts

\* C6: every output name is sanitize(base name) _ sanitize(sheet name) .xlsx
\* for the sheet the blob was made from.
C6_OutputNameSanitized ==
    \A f \in DOMAIN split_files :
        f = sanitize_filename(BaseName(request[1].filename)) \o <<"_">>
              \o sanitize_filename(split_files[f].sheet) \o <<".", "x", "l", "s", "x">>

\* C7: a successful response is a single file exactly when one sheet was
\* extracted and an archive exactly when more than one was, and holds every
\* extracted sheet.
C7_ResponseShape ==
    (response # <<>> /\ response[1].status = 200) =>
        /\ response[1].kind = "file" <=> Cardinality(Succeeded) = 1
        /\ response[1].kind = "zip" <=> Cardinality(Succeeded) > 1
        /\ Succeeded \subseteq SheetsIn(response[1].files)

\* C8: in every state each entry of the result mapping is the complete
\* serialization of a sheet all of whose copy steps finished, a failed sheet
\* has no entry, and a returned error comes with an empty mapping.
C8_OnlyCompleteBlobs ==
    /\ \A f \in DOMAIN split_files :
          /\ split_files[f].complete
          /\ split_files[f].parts = CopySteps
          /\ split_files[f].sheet \in Succeeded \ Failed
    /\ ret # <<>> =>
          /\ ret[1].error # NoError => ret[1].files = EmptyFiles
          /\ ret[1].error = NoError => ret[1].files = split_files

\* a batch returned with one sheet stored and another one abandoned in save
C8_Witness ==
    /\ ret # <<>>
    /\ DOMAIN ret[1].files # {}
    /\ \E k \in 1..Len(log) : log[k].level = "error" /\ log[k].step = "save"

(***************************************************************************)
(* SpecCell: the copy of one cell (lines 176-192)                          *)
(***************************************************************************)

\* the style attributes in the order lines 186-190 copy them
StyleAttrs == <<"font", "fill", "border", "alignment", "number_format">>

CellValues == {"None", "42", "=A1+B1"}
StyleValues == {"default", "custom"}

Cells ==
    [value : CellValues, font : StyleValues, fill : StyleValues, border : StyleValues,
     alignment : StyleValues, number_format : StyleValues]

\* target_ws.cell(row, column) on the fresh sheet
FreshCell ==
    [value |-> "None", font |-> "default", fill |-> "default", border |-> "default",
     alignment |-> "default", number_format |-> "default"]

\* Cell.has_style: some style index is not the default one
has_style(c) == \E k \in 1..Len(StyleAttrs) : c[StyleAttrs[k]] # "default"

\* line 178
CellPick ==
    /\ cpc = "pick"
    /\ \E c \in Cells : cell' = <<c>>
    /\ target_cell' = <<FreshCell>>
    /\ cpc' = "value"
    /\ UNCHANGED <<attr_i, cell_log>>
    /\ UNCHANGED <<mainVars, dimVars>>

\* lines 181 and 184
CopyValue ==
    /\ cpc = "value"
    /\ target_cell' = << [target_cell[1] EXCEPT !.value = cell[1].value] >>
    /\ IF has_style(cell[1])
       THEN cpc' = "style" /\ attr_i' = 1
       ELSE cpc' = "cell_done" /\ UNCHANGED attr_i
    /\ UNCHANGED <<cell, cell_log>>
    /\ UNCHANGED <<mainVars, dimVars>>

\* one of the assignments of lines 186-190
CopyStyleAttr ==
    /\ cpc = "style"
    /\ target_cell' = << [target_cell[1] EXCEPT ![StyleAttrs[attr_i]] = cell[1][StyleAttrs[attr_i]]] >>
    /\ IF attr_i = Len(StyleAttrs)
       THEN cpc' = "cell_done" /\ UNCHANGED attr_i
       ELSE cpc' = "style" /\ attr_i' = attr_i + 1
    /\ UNCHANGED <<cell, cell_log>>
    /\ UNCHANGED <<mainVars, dimVars>>

\* the handler changed to guard each attribute on its own: it logs and goes on
\* with the next attribute
StyleErrorNextAttr ==
    /\ cpc = "style"
    /\ cell_log' = Append(cell_log, [level |-> "debug", attr |-> StyleAttrs[attr_i]])
    /\ IF attr_i = Len(StyleAttrs)
       THEN cpc' = "cell_done" /\ UNCHANGED attr_i
       ELSE cpc' = "style" /\ attr_i' = attr_i + 1
    /\ UNCHANGED <<cell, target_cell>>
    /\ UNCHANGED <<mainVars, dimVars>>

\* one of the assignments of lines 186-190 raises: the single handler of
\* lines 191-192 logs it and leaves the try block
StyleError ==
    /\ cpc = "style"
    /\ cell_log' = Append(cell_log, [level |-> "debug", attr |-> StyleAttrs[attr_i]])
    /\ cpc' = "cell_done"
    /\ UNCHANGED <<cell, target_cell, attr_i>>
    /\ UNCHANGED <<mainVars, dimVars>>

InitCell ==
    /\ pc = "idle"
    /\ IdleMain
    /\ IdleDim
    /\ cpc = "pick"
    /\ cell = <<>>
    /\ target_cell = <<>>
    /\ attr_i = 0
    /\ cell_log = <<>>

NextCell ==
    \/ CellPick
    \/ CopyValue
    \/ CopyStyleAttr
    \/ StyleError

SpecCell == InitCell /\ [][NextCell]_vars

\* the attributes whose copy raised
FailedAttrs == {cell_log[k].attr : k \in 1..Len(cell_log)}
AttrIndex(a) == CHOOSE k \in 1..Len(StyleAttrs) : StyleAttrs[k] = a

DimKeys == 1..NumDimKeys

\* width / height of a dimension entry: <<>> is None, <<w>> an explicit value
DimValues == {<<>>} \cup {<<w>> : w \in 0..MaxDim}

Dimensions == UNION {[S -> DimValues] : S \in SUBSET DimKeys}

\* bool(x) of Python for None and numbers
Truthy(v) == v # <<>> /\ v[1] # 0

RECURSIVE Sorted(_)
Sorted(S) ==
    IF S = {} THEN <<>>
    ELSE LET m == CHOOSE x \in S : \A y \in S : x <= y
         IN  <<m>> \o Sorted(S \ {m})

\* a source sheet and the fresh target sheet; the loop of line 166 starts
DimPick ==
    /\ dpc = "pick"
    /\ \E cd \in Dimensions, rd \in Dimensions :
          /\ source_ws' = << [column_dimensions |-> cd, row_dimensions |-> rd] >>
          /\ todo' = Sorted(DOMAIN cd)
    /\ target_ws' = << [column_dimensions |-> <<>>, row_dimensions |-> <<>>] >>
    /\ dpc' = "cols"
    /\ UNCHANGED <<mainVars, cellVars>>

\* one iteration of lines 166-168
DimCopyColumnWidth ==
    /\ dpc = "cols"
    /\ todo # <<>>
    /\ LET col_letter == Head(todo)
           col_dim == source_ws[1].column_dimensions[col_letter]
       IN  IF Truthy(col_dim)
           THEN target_ws' = << [target_ws[1] EXCEPT !.column_dimensions =
                                    (col_letter :> col_dim) @@ @] >>
           ELSE UNCHANGED target_ws
    /\ todo' = Tail(todo)
    /\ UNCHANGED <<dpc, source_ws>>
    /\ UNCHANGED <<mainVars, cellVars>>

\* the loop of line 166 ends, the loop of line 171 starts
DimColumnsDone ==
    /\ dpc = "cols"
    /\ todo = <<>>
    /\ todo' = Sorted(DOMAIN source_ws[1].row_dimensions)
    /\ dpc' = "rows"
    /\ UNCHANGED <<source_ws, target_ws>>
    /\ UNCHANGED <<mainVars, cellVars>>

\* one iteration of lines 171-173
DimCopyRowHeight ==
    /\ dpc = "rows"
    /\ todo # <<>>
    /\ LET row_num == Head(todo)
           row_dim == source_ws[1].row_dimensions[row_num]
       IN  IF Truthy(row_dim)
           THEN target_ws' = << [target_ws[1] EXCEPT !.row_dimensions =
                                    (row_num :> row_dim) @@ @] >>
           ELSE UNCHANGED target_ws
    /\ todo' = Tail(todo)
    /\ UNCHANGED <<dpc, source_ws>>
    /\ UNCHANGED <<mainVars, cellVars>>

\* the loop of line 171 ends
DimRowsDone ==
    /\ dpc = "rows"
    /\ todo = <<>>
    /\ dpc' = "dims_done"
    /\ UNCHANGED <<source_ws, target_ws, todo>>
    /\ UNCHANGED <<mainVars, cellVars>>

InitDim ==
    /\ pc = "idle"
    /\ IdleMain
    /\ IdleCell
    /\ dpc = "pick"
    /\ source_ws = <<>>
    /\ target_ws = <<>>
    /\ todo = <<>>

NextDim ==
    \/ DimPick
    \/ DimCopyColumnWidth
    \/ DimColumnsDone
    \/ DimCopyRowHeight
    \/ DimRowsDone

SpecDim == InitDim /\ [][NextDim]_vars

SameDims(src, tgt) ==
    \A k \in DOMAIN src :
        IF src[k] # <<>>
        THEN k \in DOMAIN tgt /\ tgt[k] = src[k]
        ELSE k \notin DOMAIN tgt

\* C10: after the dimension copy every column entry with an explicit width,
\* 0 included, has the same width on the target, every row entry with an
\* explicit height has the same height, and entries without a value have no
\* entry on the target.
C10_ExplicitDimensionsCopied ==
    dpc = "dims_done" =>
        /\ SameDims(source_ws[1].column_dimensions, target_ws[1].column_dimensions)
        /\ SameDims(source_ws[1].row_dimensions, target_ws[1].row_dimensions)

====
